---- MODULE Spec2Model ----
(***************************************************************************)
(* Model of pallets/xcm-adapter/src/lib.rs: the XCM asset adapter.         *)
(*   - PHAXCurrencyId and its serialization to bytes,                      *)
(*   - IsConcreteWithGeneralKey::matches_fungible,                         *)
(*   - XCurrencyIdConverter::from_asset_and_location,                      *)
(*   - NativePalletAssetOr::filter_asset_location,                         *)
(*   - Module::deposit_asset / Module::withdraw_asset and the event log.   *)
(* Generic type parameters of the source (NativeTokens, CurrencyId,        *)
(* FromRelayChainBalance) are operator parameters here.                    *)
(***************************************************************************)
EXTENDS Integers, Sequences, FiniteSets, TLC

(***************************************************************************)
(* Bounds of the model.                                                    *)
(***************************************************************************)
\* Largest value of the protocol amount type (u128), scaled down.
U128Max == 3

\* Largest value of the local balance type T::Balance (B), scaled down.
BalanceMax == 1

\* Number of calls made in one run.
MaxCalls == 2

(***************************************************************************)
(* Option values.                                                          *)
(***************************************************************************)
None == [some |-> FALSE, val |-> "none"]

Some(v) == [some |-> TRUE, val |-> v]

(***************************************************************************)
(* xcm::v0 Junction and MultiLocation (a sequence of junctions: Null is    *)
(* the empty sequence, X1(a) is <<a>>, X2(a, b) is <<a, b>>, ...).         *)
(***************************************************************************)
Parent == [kind |-> "Parent", id |-> 0, key |-> <<>>]

Parachain(n) == [kind |-> "Parachain", id |-> n, key |-> <<>>]

GeneralKey(k) == [kind |-> "GeneralKey", id |-> 0, key |-> k]

\* MultiLocation::last(): the last junction, if any.
last(loc) == IF Len(loc) = 0 THEN None ELSE Some(loc[Len(loc)])

(***************************************************************************)
(* xcm::v0 MultiAsset: the variant, and for the variants that have them    *)
(* the identity (id / class) and the amount.                               *)
(***************************************************************************)
ConcreteFungible(i, a) == [variant |-> "ConcreteFungible", id |-> i, amount |-> a]

ConcreteNonFungible(c) == [variant |-> "ConcreteNonFungible", id |-> c, amount |-> 0]

AbstractFungible(a) == [variant |-> "AbstractFungible", id |-> <<>>, amount |-> a]

AllAssets == [variant |-> "All", id |-> <<>>, amount |-> 0]

(***************************************************************************)
(* ChainId and PHAXCurrencyId.                                             *)
(***************************************************************************)
RelayChain == [tag |-> "RelayChain", para |-> 0]

ParaChain(p) == [tag |-> "ParaChain", para |-> p]

PHAXCurrencyId(c, k) == [chain_id |-> c, currency_id |-> k]

\* b"DOT"
DOT == <<68, 79, 84>>

\* A u32 as the codec writes it: four bytes, least significant first.
u32_le(n) == <<n % 256, (n \div 256) % 256, (n \div 65536) % 256, (n \div 16777216) % 256>>

\* ChainId_encode with the variant index left out of the parachain variant.
ChainId_encode_untagged(c) == IF c.tag = "RelayChain" THEN <<0>> ELSE u32_le(c.para)

\* #[derive(Encode)] on ChainId: the variant index, then the variant's field.
ChainId_encode(c) == IF c.tag = "RelayChain" THEN <<0>> ELSE <<1>> \o u32_le(c.para)

\* #[derive(Decode)] on ChainId: reads the variant index and the field from
\* the front of the input; gives the value and the unread rest.
ChainId_decode(bytes) ==
    IF Len(bytes) >= 1 /\ bytes[1] = 0
    THEN Some([chain_id |-> RelayChain, rest |-> SubSeq(bytes, 2, Len(bytes))])
    ELSE IF Len(bytes) >= 5 /\ bytes[1] = 1
    THEN Some([chain_id |-> ParaChain(bytes[2] + 256 * bytes[3] + 65536 * bytes[4]
                                        + 16777216 * bytes[5]),
               rest |-> SubSeq(bytes, 6, Len(bytes))])
    ELSE None

\* impl Into<Vec<u8>> for PHAXCurrencyId
into_bytes(x) == ChainId_encode(x.chain_id) \o x.currency_id

(***************************************************************************)
(* Numeric conversions.                                                    *)
(***************************************************************************)
\* CheckedConversion::checked_from::<u128> into B (B: TryFrom<u128>): the
\* value when it is in B's range, nothing otherwise.
checked_from(x) == IF x <= BalanceMax THEN Some(x) ELSE None

\* saturated_into with a target type narrower than the balance type.
saturated_into_narrow(x) == IF x > BalanceMax - 1 THEN BalanceMax - 1 ELSE x

\* SaturatedConversion::saturated_into of a T::Balance into the wide integer
\* (T::Balance: Into<u128>): the value, clamped to the target's range.
saturated_into(x) == IF x > U128Max THEN U128Max ELSE x

\* TryInto::<T::Balance>::try_into of the wide integer.
try_into(x) == IF x <= BalanceMax THEN Some(x) ELSE None

\* The implementations of Convert<u128, u128> a runtime may configure as
\* FromRelayChainBalance: relay chain decimals to local decimals.
Rebases == {"identity", "halve", "double"}

\* FromRelayChainBalance::convert
Convert(FromRelayChainBalance, amount) ==
    CASE FromRelayChainBalance = "identity" -> amount
      [] FromRelayChainBalance = "halve" -> amount \div 2
      [] FromRelayChainBalance = "double" ->
            IF 2 * amount > U128Max THEN U128Max ELSE 2 * amount

(***************************************************************************)
(* IsConcreteWithGeneralKey<CurrencyId, FromRelayChainBalance>.            *)
(* CurrencyId is given as the set of keys whose TryFrom<Vec<u8>> succeeds. *)
(***************************************************************************)
\* matches_fungible without the conversion of relay chain decimals.
matches_fungible_unrebased(CurrencyId, FromRelayChainBalance, a) ==
    IF a.variant = "ConcreteFungible"
    THEN IF a.id = <<Parent>>
         THEN checked_from(a.amount)
         ELSE IF /\ last(a.id).some
                 /\ last(a.id).val.kind = "GeneralKey"
                 /\ last(a.id).val.key \in CurrencyId
              THEN checked_from(a.amount)
              ELSE None
    ELSE None

matches_fungible(CurrencyId, FromRelayChainBalance, a) ==
    IF a.variant = "ConcreteFungible"
    THEN IF a.id = <<Parent>>
         THEN checked_from(Convert(FromRelayChainBalance, a.amount))
         ELSE IF /\ last(a.id).some
                 /\ last(a.id).val.kind = "GeneralKey"
                 /\ last(a.id).val.key \in CurrencyId
              THEN checked_from(a.amount)
              ELSE None
    ELSE None

(***************************************************************************)
(* XCurrencyIdConverter<NativeTokens>. NativeTokens is the registry: a     *)
(* function from the registered keys to their reserve locations.           *)
(***************************************************************************)
\* from_asset_and_location with the parent branch taken for an origin that
\* is the parent only.
from_asset_and_location_by_origin(NativeTokens, multi_asset, multi_location) ==
    IF multi_asset.variant = "ConcreteFungible"
    THEN IF multi_asset.id = <<Parent>> /\ multi_location = <<Parent>>
         THEN Some(PHAXCurrencyId(RelayChain, DOT))
         ELSE IF /\ last(multi_asset.id).some
                 /\ last(multi_asset.id).val.kind = "GeneralKey"
                 /\ last(multi_asset.id).val.key \in DOMAIN NativeTokens
              THEN LET key == last(multi_asset.id).val.key
                       reserve == NativeTokens[key]
                   IN IF /\ Len(reserve) = 2
                         /\ reserve[1] = Parent
                         /\ reserve[2].kind = "Parachain"
                      THEN Some(PHAXCurrencyId(ParaChain(reserve[2].id), key))
                      ELSE None
              ELSE None
    ELSE None

\* from_asset_and_location reading the first junction where the source
\* reads the last.
from_asset_and_location_first(NativeTokens, multi_asset, multi_location) ==
    IF multi_asset.variant = "ConcreteFungible"
    THEN IF multi_asset.id = <<Parent>>
         THEN Some(PHAXCurrencyId(RelayChain, DOT))
         ELSE IF /\ Len(multi_asset.id) > 0
                 /\ multi_asset.id[1].kind = "GeneralKey"
                 /\ multi_asset.id[1].key \in DOMAIN NativeTokens
              THEN LET key == multi_asset.id[1].key
                       reserve == NativeTokens[key]
                   IN IF /\ Len(reserve) = 2
                         /\ reserve[1] = Parent
                         /\ reserve[2].kind = "Parachain"
                      THEN Some(PHAXCurrencyId(ParaChain(reserve[2].id), key))
                      ELSE None
              ELSE None
    ELSE None

from_asset_and_location(NativeTokens, multi_asset, multi_location) ==
    IF multi_asset.variant = "ConcreteFungible"
    THEN IF multi_asset.id = <<Parent>>
         THEN Some(PHAXCurrencyId(RelayChain, DOT))
         ELSE IF /\ last(multi_asset.id).some
                 /\ last(multi_asset.id).val.kind = "GeneralKey"
                 /\ last(multi_asset.id).val.key \in DOMAIN NativeTokens
              THEN LET key == last(multi_asset.id).val.key
                       reserve == NativeTokens[key]
                   IN IF /\ Len(reserve) = 2
                         /\ reserve[1] = Parent
                         /\ reserve[2].kind = "Parachain"
                      THEN Some(PHAXCurrencyId(ParaChain(reserve[2].id), key))
                      ELSE None
              ELSE None
    ELSE None

(***************************************************************************)
(* NativePalletAssetOr<NativeTokens>.                                      *)
(***************************************************************************)
\* xcm_executor::traits::NativeAsset, the executor's own filter, called first:
\* a concrete fungible asset whose identity is the origin.
NativeAsset(asset, origin) == asset.variant = "ConcreteFungible" /\ asset.id = origin

\* filter_asset_location without the comparison of the origin.
filter_asset_location_any_origin(NativeTokens, asset, origin) ==
    IF NativeAsset(asset, origin)
    THEN TRUE
    ELSE /\ asset.variant = "ConcreteFungible"
         /\ last(asset.id).some
         /\ last(asset.id).val.kind = "GeneralKey"
         /\ last(asset.id).val.key \in DOMAIN NativeTokens

\* filter_asset_location that trusts a general key it does not know.
filter_asset_location_unknown_key(NativeTokens, asset, origin) ==
    IF NativeAsset(asset, origin)
    THEN TRUE
    ELSE IF /\ asset.variant = "ConcreteFungible"
            /\ last(asset.id).some
            /\ last(asset.id).val.kind = "GeneralKey"
         THEN IF last(asset.id).val.key \in DOMAIN NativeTokens
              THEN origin = NativeTokens[last(asset.id).val.key]
              ELSE TRUE
         ELSE FALSE

filter_asset_location(NativeTokens, asset, origin) ==
    IF NativeAsset(asset, origin)
    THEN TRUE
    ELSE IF /\ asset.variant = "ConcreteFungible"
            /\ last(asset.id).some
            /\ last(asset.id).val.kind = "GeneralKey"
            /\ last(asset.id).val.key \in DOMAIN NativeTokens
         THEN origin = NativeTokens[last(asset.id).val.key]
         ELSE FALSE

(***************************************************************************)
(* Module<T>: the TransactAsset implementation. T is the runtime's         *)
(* configuration: T.NativeTokens, T.CurrencyId and T.FromRelayChainBalance *)
(* are the parameters of T::XCurrencyIdConverter and T::Matcher.           *)
(***************************************************************************)
\* T::AccountIdConverter::from_location: the parent and a sibling parachain
\* have an account of this chain, no other location has.
from_location(location) ==
    IF location = <<Parent>>
    THEN Some([who |-> "parent", id |-> 0])
    ELSE IF Len(location) = 2 /\ location[1] = Parent /\ location[2].kind = "Parachain"
    THEN Some([who |-> "sibling", id |-> location[2].id])
    ELSE None

\* Event::<T>::DepositAsset(currency_id, account_id, amount, to_tee)
DepositAssetEvent(currency_id, who, amount, to_tee) ==
    [kind |-> "DepositAsset", currency_id |-> currency_id, who |-> who,
     amount |-> amount, to_tee |-> to_tee]

\* Event::<T>::WithdrawAsset(currency_id, account_id, amount, to_tee)
WithdrawAssetEvent(currency_id, who, amount, to_tee) ==
    [kind |-> "WithdrawAsset", currency_id |-> currency_id, who |-> who,
     amount |-> amount, to_tee |-> to_tee]

\* deposit_event putting the event in front of the log.
deposit_event_front(log, event) == <<event>> \o log

\* Self::deposit_event: the event goes to the end of the block's event log.
deposit_event(log, event) == Append(log, event)

\* `.ok_or(())?` and `.map_err(|_| ())?`: the call returns the error that
\* xcm::v0::Error makes of (), and the log is as it was.
Err(log) == [ok |-> FALSE, out |-> "Undefined", events |-> log]

Ok(value, log) == [ok |-> TRUE, out |-> value, events |-> log]

\* deposit_asset emitting its event before the amount is known to match.
deposit_asset_event_first(T, log, asset, location) ==
    LET who == from_location(location)
        currency_id == from_asset_and_location(T.NativeTokens, asset, location)
        matched == matches_fungible(T.CurrencyId, T.FromRelayChainBalance, asset)
    IN IF ~who.some THEN Err(log)
       ELSE IF ~currency_id.some THEN Err(log)
       ELSE LET emitted == deposit_event(log, DepositAssetEvent(into_bytes(currency_id.val),
                                                                who.val, asset.amount, TRUE))
            IN IF ~matched.some THEN Err(emitted)
               ELSE IF ~try_into(saturated_into(matched.val)).some THEN Err(emitted)
               ELSE Ok("unit", emitted)

deposit_asset(T, log, asset, location) ==
    LET who == from_location(location)
        currency_id == from_asset_and_location(T.NativeTokens, asset, location)
        matched == matches_fungible(T.CurrencyId, T.FromRelayChainBalance, asset)
    IN IF ~who.some THEN Err(log)
       ELSE IF ~currency_id.some THEN Err(log)
       ELSE IF ~matched.some THEN Err(log)
       ELSE LET amount == saturated_into(matched.val)
                balance_amount == try_into(amount)
            IN IF ~balance_amount.some THEN Err(log)
               ELSE Ok("unit",
                       deposit_event(log, DepositAssetEvent(into_bytes(currency_id.val),
                                                            who.val, balance_amount.val, TRUE)))

\* withdraw_asset emitting the asset's amount as it came.
withdraw_asset_raw_amount(T, log, asset, location) ==
    LET who == from_location(location)
        currency_id == from_asset_and_location(T.NativeTokens, asset, location)
        matched == matches_fungible(T.CurrencyId, T.FromRelayChainBalance, asset)
    IN IF ~who.some THEN Err(log)
       ELSE IF ~currency_id.some THEN Err(log)
       ELSE IF ~matched.some THEN Err(log)
       ELSE Ok(asset,
               deposit_event(log, WithdrawAssetEvent(into_bytes(currency_id.val),
                                                     who.val, asset.amount, TRUE)))

withdraw_asset(T, log, asset, location) ==
    LET who == from_location(location)
        currency_id == from_asset_and_location(T.NativeTokens, asset, location)
        matched == matches_fungible(T.CurrencyId, T.FromRelayChainBalance, asset)
    IN IF ~who.some THEN Err(log)
       ELSE IF ~currency_id.some THEN Err(log)
       ELSE IF ~matched.some THEN Err(log)
       ELSE LET amount == saturated_into(matched.val)
                balance_amount == try_into(amount)
            IN IF ~balance_amount.some THEN Err(log)
               ELSE Ok(asset,
                       deposit_event(log, WithdrawAssetEvent(into_bytes(currency_id.val),
                                                             who.val, balance_amount.val, TRUE)))

(***************************************************************************)
(* The values the calls are made with.                                     *)
(***************************************************************************)
\* b"XYZ" and b"ABC"
KeyXYZ == <<88, 89, 90>>

KeyABC == <<65, 66, 67>>

Keys == {KeyXYZ, KeyABC}

\* The keys the runtime's CurrencyId type parses (TryFrom<Vec<u8>>).
CurrencyIds == {KeyXYZ}

\* Reserve locations a registry entry may hold: of the shape
\* X2(Parent, Parachain) and not.
ReserveLocations == {<<Parent, Parachain(2000)>>, <<Parachain(2000)>>}

\* BTreeMap<Vec<u8>, MultiLocation>: the maps of some of the keys; b"ABC",
\* when registered, has a reserve of the shape X2(Parent, Parachain).
Registries ==
    {r \in UNION {[S -> ReserveLocations] : S \in SUBSET Keys} :
        KeyABC \in DOMAIN r => r[KeyABC] = <<Parent, Parachain(2000)>>}

\* Identities of assets.
AssetIds ==
    {<<>>, <<Parent>>, <<GeneralKey(KeyXYZ)>>, <<GeneralKey(KeyABC)>>,
     <<Parent, Parachain(2000), GeneralKey(KeyXYZ)>>,
     <<GeneralKey(KeyXYZ), Parent>>}

\* Locations to ask the filter and the converter about.
Origins ==
    {<<>>, <<Parent>>, <<Parent, Parachain(2000)>>, <<Parachain(2000)>>,
     <<GeneralKey(KeyXYZ)>>}

\* Locations to deposit to and withdraw from: one that has an account and
\* one that has none.
Locations == {<<Parent, Parachain(2000)>>, <<GeneralKey(KeyXYZ)>>}

Amounts == 0 .. U128Max

\* Assets with every amount, and assets of every shape with one amount.
Assets ==
    {ConcreteFungible(i, a) : i \in AssetIds, a \in Amounts}
      \cup {AbstractFungible(a) : a \in {1}}
      \cup {ConcreteNonFungible(c) : c \in {<<Parent>>, <<GeneralKey(KeyXYZ)>>}}
      \cup {AllAssets}

AssetShapes == {a \in Assets : a.amount <= 1 /\ (a.variant = "ConcreteFungible" => a.amount = 1)}

ParaIds == {1, 2000, 65536}

ChainIds == {RelayChain} \cup {ParaChain(p) : p \in ParaIds}

\* Currency identities to serialize: among them one that starts like an
\* encoded chain id.
CurrencyIdBytes == {<<>>, DOT, <<1>> \o u32_le(2000), <<0>>}

(***************************************************************************)
(* The state: the runtime's configuration, the event log, and the last     *)
(* call with what it returned.                                             *)
(***************************************************************************)
VARIABLES registry, rebase, events, before, ret, calls, okCount

vars == <<registry, rebase, events, before, ret, calls, okCount>>

\* The configuration T of the running runtime.
Runtime ==
    [NativeTokens |-> registry, CurrencyId |-> CurrencyIds, FromRelayChainBalance |-> rebase]

Init ==
    /\ registry \in Registries
    /\ rebase \in Rebases
    /\ events = <<>>
    /\ before = <<>>
    /\ ret = [op |-> "none"]
    /\ calls = 0
    /\ okCount = 0

\* What every call leaves alone or counts.
Called(r) ==
    /\ calls < MaxCalls
    /\ calls' = calls + 1
    /\ ret' = r
    /\ before' = events
    /\ UNCHANGED <<registry, rebase>>

DepositAsset(asset, location) ==
    LET r == deposit_asset(Runtime, events, asset, location)
    IN /\ Called([op |-> "deposit_asset", asset |-> asset, location |-> location,
                  ok |-> r.ok, out |-> r.out])
       /\ events' = r.events
       /\ okCount' = IF r.ok THEN okCount + 1 ELSE okCount

WithdrawAsset(asset, location) ==
    LET r == withdraw_asset(Runtime, events, asset, location)
    IN /\ Called([op |-> "withdraw_asset", asset |-> asset, location |-> location,
                  ok |-> r.ok, out |-> r.out])
       /\ events' = r.events
       /\ okCount' = IF r.ok THEN okCount + 1 ELSE okCount

MatchesFungible(asset) ==
    /\ Called([op |-> "matches_fungible", asset |-> asset,
               out |-> matches_fungible(CurrencyIds, rebase, asset)])
    /\ UNCHANGED <<events, okCount>>

FromAssetAndLocation(asset, location) ==
    /\ Called([op |-> "from_asset_and_location", asset |-> asset, location |-> location,
               out |-> from_asset_and_location(registry, asset, location)])
    /\ UNCHANGED <<events, okCount>>

FilterAssetLocation(asset, origin) ==
    /\ Called([op |-> "filter_asset_location", asset |-> asset, location |-> origin,
               out |-> filter_asset_location(registry, asset, origin)])
    /\ UNCHANGED <<events, okCount>>

IntoBytes(x) ==
    /\ Called([op |-> "into_bytes", id |-> x, out |-> into_bytes(x)])
    /\ UNCHANGED <<events, okCount>>

Next ==
    \/ \E asset \in Assets, location \in Locations : DepositAsset(asset, location)
    \/ \E asset \in Assets, location \in Locations : WithdrawAsset(asset, location)
    \/ \E asset \in Assets : MatchesFungible(asset)
    \/ \E asset \in AssetShapes, location \in Origins : FromAssetAndLocation(asset, location)
    \/ \E asset \in AssetShapes, origin \in Origins : FilterAssetLocation(asset, origin)
    \/ \E c \in ChainIds, k \in CurrencyIdBytes : IntoBytes(PHAXCurrencyId(c, k))

Spec == Init /\ [][Next]_vars

(***************************************************************************)
(* Properties.                                                             *)
(***************************************************************************)

\* C1: a deposit or withdraw in which a step fails (the origin has no
\* account, the currency identity does not resolve, the matcher gives no
\* amount, or the amount does not fit the balance type) returns a failure
\* and leaves the event log as it was; so does one whose origin has no
\* account, whatever the asset, and one whose asset ends in a general key
\* that is not registered. The number of events is the number of successful
\* calls.
FailedCallEmitsNothing ==
    /\ okCount = Len(events)
    /\ ret.op \in {"deposit_asset", "withdraw_asset"} =>
         LET who == from_location(ret.location)
             currency_id == from_asset_and_location(registry, ret.asset, ret.location)
             matched == matches_fungible(CurrencyIds, rebase, ret.asset)
             stepFails ==
                \/ ~who.some
                \/ ~currency_id.some
                \/ ~matched.some
                \/ ~try_into(saturated_into(matched.val)).some
             unregisteredKey ==
                /\ ret.asset.variant = "ConcreteFungible"
                /\ last(ret.asset.id).some
                /\ last(ret.asset.id).val.kind = "GeneralKey"
                /\ last(ret.asset.id).val.key \notin DOMAIN registry
         IN /\ stepFails => ~ret.ok
            /\ unregisteredKey => ~ret.ok
            /\ ~ret.ok => events = before /\ ret.out = "Undefined"

\* C1 happens: after one successful call, a call with an asset that resolves
\* and matches but an origin that has no account has failed.
FailedCallEmitsNothing_witness ==
    /\ ret.op \in {"deposit_asset", "withdraw_asset"}
    /\ ~ret.ok
    /\ ~from_location(ret.location).some
    /\ from_asset_and_location(registry, ret.asset, ret.location).some
    /\ matches_fungible(CurrencyIds, rebase, ret.asset).some
    /\ Len(events) = 1

\* C2: the converter maps a concrete fungible asset whose identity is
\* X1(Parent) to {RelayChain, "DOT"}, whatever the origin and the registry;
\* every identifier it returns for the relay chain has currency_id "DOT".
ParentIsRelayChainDOT ==
    ret.op = "from_asset_and_location" =>
      /\ (ret.asset.variant = "ConcreteFungible" /\ ret.asset.id = <<Parent>>) =>
            /\ ret.out = Some([chain_id |-> RelayChain, currency_id |-> <<68, 79, 84>>])
            /\ \A origin \in Origins, r \in Registries :
                  from_asset_and_location(r, ret.asset, origin) = ret.out
      /\ (ret.out.some /\ ret.out.val.chain_id = RelayChain) =>
            ret.out.val.currency_id = <<68, 79, 84>>

\* C2 happens: the converter was asked about a parent asset with another
\* origin and a registry that is not empty.
ParentIsRelayChainDOT_witness ==
    /\ ret.op = "from_asset_and_location"
    /\ ret.asset.variant = "ConcreteFungible"
    /\ ret.asset.id = <<Parent>>
    /\ ret.location # <<Parent>>
    /\ DOMAIN registry # {}
    /\ ret.out.some

\* C3: for a concrete fungible asset whose identity ends in GeneralKey(k):
\* when k is registered with the reserve X2(Parent, Parachain(id)) the
\* converter returns {ParaChain(id), k}, whatever the origin; when k is not
\* registered it returns nothing.
RegisteredKeyIsParaChain ==
    (/\ ret.op = "from_asset_and_location"
     /\ ret.asset.variant = "ConcreteFungible"
     /\ last(ret.asset.id).some
     /\ last(ret.asset.id).val.kind = "GeneralKey") =>
        LET k == last(ret.asset.id).val.key
        IN /\ k \notin DOMAIN registry => ~ret.out.some
           /\ k \in DOMAIN registry =>
                \A id \in ParaIds :
                    registry[k] = <<Parent, Parachain(id)>> =>
                        ret.out = Some([chain_id |-> ParaChain(id), currency_id |-> k])

\* C3 happens: a registered key behind a longer identity resolved to its
\* parachain.
RegisteredKeyIsParaChain_witness ==
    /\ ret.op = "from_asset_and_location"
    /\ ret.asset.variant = "ConcreteFungible"
    /\ Len(ret.asset.id) = 3
    /\ ret.out.some
    /\ ret.out.val.chain_id = ParaChain(2000)
    /\ ret.location # registry[ret.out.val.currency_id]

\* C4: when the executor's NativeAsset check approves the pair, the filter
\* returns true; when it does not, the filter returns true exactly when the
\* asset is concrete fungible, its identity ends in a registered general key
\* and the origin is equal to the reserve registered for that key.
TrustedIffOriginIsReserve ==
    ret.op = "filter_asset_location" =>
        LET native == ret.asset.variant = "ConcreteFungible" /\ ret.asset.id = ret.location
            registered ==
                /\ ret.asset.variant = "ConcreteFungible"
                /\ Len(ret.asset.id) > 0
                /\ ret.asset.id[Len(ret.asset.id)].kind = "GeneralKey"
                /\ ret.asset.id[Len(ret.asset.id)].key \in DOMAIN registry
                /\ ret.location = registry[ret.asset.id[Len(ret.asset.id)].key]
        IN IF native THEN ret.out = TRUE ELSE ret.out = registered

\* C4 happens: a pair NativeAsset does not approve was trusted.
TrustedIffOriginIsReserve_witness ==
    /\ ret.op = "filter_asset_location"
    /\ ~NativeAsset(ret.asset, ret.location)
    /\ ret.out = TRUE

\* C5: the filter is monotone in the registry: what it trusts under the
\* registry it trusts under the registry extended with k -> a, k a new key;
\* and a pair that becomes trusted has an asset whose identity ends in
\* GeneralKey(k) and the origin a.
TrustGrowsWithRegistry ==
    ret.op = "filter_asset_location" =>
        \A k \in Keys \ DOMAIN registry, a \in Origins \cup ReserveLocations :
            LET extended == [x \in DOMAIN registry \cup {k} |->
                                IF x = k THEN a ELSE registry[x]]
                after == filter_asset_location(extended, ret.asset, ret.location)
            IN /\ ret.out => after
               /\ (~ret.out /\ after) =>
                     /\ last(ret.asset.id) = Some(GeneralKey(k))
                     /\ ret.location = a

\* C5 happens: a pair the filter rejected is trusted once its key is added.
TrustGrowsWithRegistry_witness ==
    /\ ret.op = "filter_asset_location"
    /\ ~ret.out
    /\ DOMAIN registry # {}
    /\ \E k \in Keys \ DOMAIN registry :
          filter_asset_location([x \in DOMAIN registry \cup {k} |->
                                    IF x = k THEN ret.location ELSE registry[x]],
                                ret.asset, ret.location)

\* C6: for a concrete fungible asset with identity X1(Parent) and amount A
\* the matcher returns rebase(A) when it fits the balance type and nothing
\* when it does not, never A itself when rebase(A) differs from A; for one
\* whose identity ends in a general key the currency-key type parses it
\* returns A when it fits, not rebased; for every other asset, nothing.
ParentAmountIsRebased ==
    ret.op = "matches_fungible" =>
        LET A == ret.asset.amount
            rebased == CASE rebase = "identity" -> A
                         [] rebase = "halve" -> A \div 2
                         [] rebase = "double" -> IF 2 * A > U128Max THEN U128Max ELSE 2 * A
            fits(x) == IF x <= BalanceMax THEN Some(x) ELSE None
            isParent == ret.asset.variant = "ConcreteFungible" /\ ret.asset.id = <<Parent>>
            isKey ==
                /\ ret.asset.variant = "ConcreteFungible"
                /\ last(ret.asset.id).some
                /\ last(ret.asset.id).val.kind = "GeneralKey"
                /\ last(ret.asset.id).val.key \in CurrencyIds
        IN /\ isParent => ret.out = fits(rebased) /\ (rebased # A => ret.out # Some(A))
           /\ isKey => ret.out = fits(A)
           /\ (~isParent /\ ~isKey) => ret.out = None

\* C6 happens: a parent amount that does not fit was rebased to one that
\* does.
ParentAmountIsRebased_witness ==
    /\ ret.op = "matches_fungible"
    /\ ret.asset.variant = "ConcreteFungible"
    /\ ret.asset.id = <<Parent>>
    /\ ret.asset.amount > BalanceMax
    /\ ret.out.some
    /\ ret.out.val # ret.asset.amount

\* C7: reading the chain id off the front of the serialized bytes and taking
\* the rest as the currency id gives back the identifier that was
\* serialized, an empty currency id included; no other identifier
\* serializes to the same bytes.
SerializedIdIsRecovered ==
    ret.op = "into_bytes" =>
        /\ LET d == ChainId_decode(ret.out)
           IN /\ d.some
              /\ [chain_id |-> d.val.chain_id, currency_id |-> d.val.rest] = ret.id
        /\ \A c \in ChainIds, k \in CurrencyIdBytes :
              into_bytes(PHAXCurrencyId(c, k)) = ret.out => PHAXCurrencyId(c, k) = ret.id

\* C7 happens: a parachain identifier with an empty currency id was
\* serialized.
SerializedIdIsRecovered_witness ==
    /\ ret.op = "into_bytes"
    /\ ret.id.chain_id = ParaChain(2000)
    /\ ret.id.currency_id = <<>>
    /\ Len(ret.out) = 5

\* C8: the event of a successful deposit or withdraw carries the amount the
\* matcher extracted for the asset; a call whose extracted amount is changed
\* by the conversions, or does not fit, fails.
EventAmountIsMatchedAmount ==
    ret.op \in {"deposit_asset", "withdraw_asset"} =>
        LET matched == matches_fungible(CurrencyIds, rebase, ret.asset)
        IN /\ ret.ok =>
                /\ matched.some
                /\ Len(events) > 0
                /\ events[Len(events)].amount = matched.val
           /\ (matched.some /\ (saturated_into(matched.val) # matched.val
                                \/ matched.val > BalanceMax)) => ~ret.ok

\* C8 happens: a transfer of the largest balance succeeded.
EventAmountIsMatchedAmount_witness ==
    /\ ret.op \in {"deposit_asset", "withdraw_asset"}
    /\ ret.ok
    /\ events[Len(events)].amount = BalanceMax
    /\ ret.asset.amount # BalanceMax

\* C9: withdraw succeeds exactly when deposit succeeds on the same asset and
\* origin; a successful withdraw returns its asset and emits one
\* WithdrawAsset event with the payload of the DepositAsset event that
\* deposit emits.
WithdrawMirrorsDeposit ==
    LET payload(e) == <<e.currency_id, e.who, e.amount, e.to_tee>>
    IN /\ ret.op = "withdraw_asset" =>
            LET d == deposit_asset(Runtime, before, ret.asset, ret.location)
            IN /\ ret.ok = d.ok
               /\ ret.ok =>
                    /\ ret.out = ret.asset
                    /\ Len(events) = Len(before) + 1
                    /\ events[Len(events)].kind = "WithdrawAsset"
                    /\ events[Len(events)].to_tee = TRUE
                    /\ d.events[Len(d.events)].kind = "DepositAsset"
                    /\ payload(events[Len(events)]) = payload(d.events[Len(d.events)])
       /\ ret.op = "deposit_asset" =>
            LET w == withdraw_asset(Runtime, before, ret.asset, ret.location)
            IN /\ ret.ok = w.ok
               /\ ret.ok =>
                    /\ w.out = ret.asset
                    /\ events[Len(events)].kind = "DepositAsset"
                    /\ payload(events[Len(events)]) = payload(w.events[Len(w.events)])

\* C9 happens: an asset of the registered key b"XYZ" was withdrawn.
WithdrawMirrorsDeposit_witness ==
    /\ ret.op = "withdraw_asset"
    /\ ret.ok
    /\ ret.out = ret.asset
    /\ last(ret.asset.id) = Some(GeneralKey(KeyXYZ))
    /\ events[Len(events)].currency_id = <<1>> \o u32_le(2000) \o KeyXYZ

\* C10: the event log is append-only and in call order: a successful deposit
\* or withdraw adds its one event at the end of the log, and no call changes
\* or removes an event that was in the log.
LogIsAppendOnly ==
    /\ Len(before) <= Len(events)
    /\ SubSeq(events, 1, Len(before)) = before
    /\ ret.op \in {"deposit_asset", "withdraw_asset"} =>
         IF ret.ok
         THEN /\ Len(events) = Len(before) + 1
              /\ events[Len(events)].kind =
                    (IF ret.op = "deposit_asset" THEN "DepositAsset" ELSE "WithdrawAsset")
         ELSE events = before
    /\ ret.op \in {"matches_fungible", "from_asset_and_location",
                   "filter_asset_location", "into_bytes"} => events = before

\* C10 happens: a second, different event was added after the first.
LogIsAppendOnly_witness ==
    /\ Len(events) = 2
    /\ Len(before) = 1
    /\ events[1] # events[2]
    /\ ret.ok

====
